---- MODULE Spec2Model ----
(***************************************************************************)
(* Model of the export pipeline of redis-export (main.go): the key         *)
(* enumerator, the worker pool, the task that closes the result queue and  *)
(* the writer loop of Exporter.Export, with cancellation and failures of   *)
(* the data source and of the sink; and the JSON round trip of a           *)
(* RedisEntry (CodecSpec).                                                 *)
(***************************************************************************)
EXTENDS Integers, Sequences, FiniteSets, TLC

\* ---------------------------------------------------------------- bounds
MaxWorkers == 2
MaxBatch == 1
MaxKeys == 2

\* ------------------------------------------------------- the data source
\* The keys the store may hold; the key source yields each key once.
AllKeys == {"test:key", "user:1", "doc:1"}

\* TYPE <key> as the store answers it.
StoreType(key) ==
    CASE key = "test:key" -> "string"
      [] key = "user:1" -> "hash"
      [] OTHER -> "unsupported"

\* time.Second; a time.Duration is counted here in milliseconds.
Second == 1000

\* The durations the TTL fetch may answer for a key: the remaining time at
\* the moment of the fetch, or a non-positive value for a key without expiry
\* or one that has just expired.
StoreTTLs(key) ==
    CASE key = "user:1" -> {3600 * Second, Second + Second \div 2, Second \div 2}
      [] OTHER -> {-1 * Second, -1, 0}

\* float64 to int64 as in int64(d.Seconds()): the fraction is cut off,
\* towards zero.
WholeSeconds(d) == IF d >= 0 THEN d \div Second ELSE -((-d) \div Second)

NoKey == ""

\* The Value of a RedisEntry: a Go value of some dynamic type.
GoValue(gotype, data) == [gotype |-> gotype, data |-> data]

\* The zero RedisEntry.
NoEntry == [key |-> "", type |-> "", value |-> GoValue("nil", ""), ttl |-> 0]

\* Mutant of ValueCommand: an unknown type is fetched as a string.
ValueCommandDefaultGet(keyType) ==
    CASE keyType = "list" -> "LRANGE"
      [] keyType = "set" -> "SMEMBERS"
      [] keyType = "zset" -> "ZRANGE"
      [] keyType = "hash" -> "HGETALL"
      [] keyType = "stream" -> "XRANGE"
      [] OTHER -> "GET"

\* getValueByType: the command the type dispatches to, "" when unsupported.
ValueCommand(keyType) ==
    CASE keyType = "string" -> "GET"
      [] keyType = "list" -> "LRANGE"
      [] keyType = "set" -> "SMEMBERS"
      [] keyType = "zset" -> "ZRANGE"
      [] keyType = "hash" -> "HGETALL"
      [] keyType = "stream" -> "XRANGE"
      [] OTHER -> ""

\* getValueByType: the error of the default branch.
UnsupportedErr(keyType) == <<"unsupported key type: ", keyType>>

\* processKey: the error wrapping of a failed step.
KeyErr(op, key, cause) == [op |-> op, key |-> key, cause |-> cause]

\* The Go type of the result of each value command of go-redis.
ResultType(cmd) ==
    CASE cmd = "GET" -> "string"
      [] cmd = "LRANGE" -> "[]string"
      [] cmd = "SMEMBERS" -> "[]string"
      [] cmd = "ZRANGE" -> "[]redis.Z"
      [] cmd = "HGETALL" -> "map[string]string"
      [] cmd = "XRANGE" -> "[]redis.XMessage"
      [] OTHER -> "nil"

\* getValueByType: the value a successful fetch returns, the content of the
\* key in the Go type of the command's result.
FetchedValue(key, keyType) == GoValue(ResultType(ValueCommand(keyType)), key)

\* Mutant of MakeEntry: the TTL is converted without the ttl > 0 test.
MakeEntryAnyTTL(key, keyType, ttl) ==
    [key |-> key, type |-> keyType, value |-> FetchedValue(key, keyType),
     ttl |-> WholeSeconds(ttl)]

\* processKey: the entry built after the three fetches.
MakeEntry(key, keyType, ttl) ==
    [key |-> key, type |-> keyType, value |-> FetchedValue(key, keyType),
     ttl |-> IF ttl > 0 THEN WholeSeconds(ttl) ELSE 0]

\* The JSON kind a Go value is marshalled to.
JSONKind(gotype) ==
    CASE gotype = "string" -> "string"
      [] gotype = "[]string" -> "array"
      [] gotype = "[]redis.Z" -> "array"
      [] gotype = "[]redis.XMessage" -> "array"
      [] gotype = "map[string]string" -> "object"
      [] gotype = "[]interface {}" -> "array"
      [] gotype = "map[string]interface {}" -> "object"
      [] OTHER -> "null"

\* Mutant of EncodeJSON: the ttl field has no omitempty.
EncodeJSONKeepZero(entry) ==
    [key |-> entry.key, type |-> entry.type,
     value |-> [kind |-> JSONKind(entry.value.gotype), data |-> entry.value.data],
     ttl |-> entry.ttl]

\* json.Marshal of a RedisEntry: the object with the fields "key", "type"
\* and "value", and "ttl" unless it is zero (omitempty).
EncodeJSON(entry) ==
    IF entry.ttl = 0
      THEN [key |-> entry.key, type |-> entry.type,
            value |-> [kind |-> JSONKind(entry.value.gotype),
                       data |-> entry.value.data]]
      ELSE [key |-> entry.key, type |-> entry.type,
            value |-> [kind |-> JSONKind(entry.value.gotype),
                       data |-> entry.value.data],
            ttl |-> entry.ttl]

\* The Go value json.Unmarshal stores into an interface{} for a JSON value.
DecodeValue(v) ==
    GoValue(CASE v.kind = "string" -> "string"
              [] v.kind = "array" -> "[]interface {}"
              [] v.kind = "object" -> "map[string]interface {}"
              [] OTHER -> "nil",
            v.data)

\* json.Unmarshal into a RedisEntry: a field that is absent keeps its zero
\* value.
DecodeJSON(j) ==
    [key |-> j.key, type |-> j.type, value |-> DecodeValue(j.value),
     ttl |-> IF "ttl" \in DOMAIN j THEN j.ttl ELSE 0]

\* The JSON value of the tokens that are not elements.
NoJSON == EncodeJSON(NoEntry)

\* -------------------------------------------------------------- the state
VARIABLES
    workers,        \* config.Workers
    batchSize,      \* config.BatchSize: capacity of both channels
    source,         \* the keys the iterator will yield, in order
    pos,            \* number of keys the iterator has yielded
    cancelled,      \* ctx.Done() is closed
    cancelEarly,    \* ctx was cancelled while the iterator had keys left to yield
    mainPc,         \* Export: "create", "loop", "done"
    ret,            \* Export's return: "none", "nil", "ErrCreate", "ctxErr"
    enumPc,         \* enumerator: "idle", "next", "send", "done"
    enumExit,       \* why the enumerator left: "none", "exhausted", "error", "cancelled"
    enumKey,        \* the enumerator's key variable
    keysChan,       \* buffer of keysChan
    keysClosed,     \* number of close(keysChan) calls
    pc,             \* worker: "idle", "recv", "select", "type", "value", "ttl", "send", "done"
    wkey,           \* worker's key variable
    wtype,          \* worker's keyType variable
    wentry,         \* worker's entry
    wg,             \* the WaitGroup counter
    closerPc,       \* closing task: "idle", "wait", "done"
    resultsChan,    \* buffer of resultsChan
    resultsClosed,  \* number of close(resultsChan) calls
    output,         \* what has been written to the file, as tokens
    firstEntry,     \* writer's firstEntry
    processed,      \* writer's processed counter
    taken,          \* number of entries the writer has received
    encodeErrs,     \* keys whose Encode failed
    calls,          \* per key, the commands issued to the store for it
    errlog,         \* per key, the errors the worker logged for it
    ttlSeen,        \* per key, the durations its TTL fetches answered
    codecPc,        \* JSON round trip of one entry: "off", "encode", "decode", "done"
    rec,            \* the RedisEntry that is marshalled
    json,           \* the JSON object json.Marshal gave
    back            \* the RedisEntry json.Unmarshal gave

vars == <<workers, batchSize, source, pos, cancelled, cancelEarly, mainPc, ret,
          enumPc, enumExit, enumKey, keysChan, keysClosed, pc, wkey, wtype,
          wentry, wg, closerPc, resultsChan, resultsClosed, output, firstEntry,
          processed, taken, encodeErrs, calls, errlog, ttlSeen,
          codecPc, rec, json, back>>

codecVars == <<codecPc, rec, json, back>>
configVars == <<workers, batchSize, source>>
enumVars == <<pos, enumPc, enumExit, enumKey>>
workerVars == <<pc, wkey, wtype, wentry, wg>>
writerVars == <<output, firstEntry, processed, taken, encodeErrs>>
mainVars == <<mainPc, ret>>
ctxVars == <<cancelled, cancelEarly>>

Workers == 1..workers

\* The state before Export is called.
Idle ==
    /\ pos = 0
    /\ cancelled = FALSE
    /\ cancelEarly = FALSE
    /\ mainPc = "create"
    /\ ret = "none"
    /\ enumPc = "idle"
    /\ enumExit = "none"
    /\ enumKey = NoKey
    /\ keysChan = <<>>
    /\ keysClosed = 0
    /\ pc = [w \in Workers |-> "idle"]
    /\ wkey = [w \in Workers |-> NoKey]
    /\ wtype = [w \in Workers |-> ""]
    /\ wentry = [w \in Workers |-> NoEntry]
    /\ wg = 0
    /\ closerPc = "idle"
    /\ resultsChan = <<>>
    /\ resultsClosed = 0
    /\ output = <<>>
    /\ firstEntry = TRUE
    /\ processed = 0
    /\ taken = 0
    /\ encodeErrs = {}
    /\ calls = [k \in AllKeys |-> <<>>]
    /\ errlog = [k \in AllKeys |-> <<>>]
    /\ ttlSeen = [k \in AllKeys |-> <<>>]

\* All sequences of distinct keys of length at most MaxKeys.
Sources ==
    {s \in UNION {[1..n -> AllKeys] : n \in 0..MaxKeys} :
        \A i, j \in DOMAIN s : i # j => s[i] # s[j]}

\* What one write puts into the file: "[", ",", "]", an element ("elem")
\* or the beginning of one ("partial"), with the JSON object of the element.
Tok(t, e) == [tok |-> t, entry |-> e]

Init ==
    /\ workers \in 0..MaxWorkers
    /\ batchSize \in 0..MaxBatch
    /\ source \in Sources
    /\ Idle
    /\ codecPc = "off"
    /\ rec = NoEntry
    /\ json = NoJSON
    /\ back = NoEntry

\* ------------------------------------------------------------ Export head
\* Mutant of CreateFails: the error of os.Create is checked only after the
\* tasks have been started and "[" has been written.
CreateFailsStarted ==
    /\ mainPc = "create"
    /\ mainPc' = "done"
    /\ ret' = "ErrCreate"
    /\ pc' = [w \in Workers |-> "recv"]
    /\ wg' = workers
    /\ closerPc' = "wait"
    /\ output' = Append(output, Tok("[", NoJSON))
    /\ enumPc' = "next"
    /\ UNCHANGED <<codecVars, configVars,
                   ctxVars, pos, enumExit, enumKey, keysChan,
                   keysClosed, wkey, wtype, wentry, resultsChan, resultsClosed,
                   firstEntry, processed, taken, encodeErrs, calls, errlog, ttlSeen>>

\* os.Create fails: Export returns before anything is started.
CreateFails ==
    /\ mainPc = "create"
    /\ mainPc' = "done"
    /\ ret' = "ErrCreate"
    /\ UNCHANGED <<codecVars, configVars,
                   enumVars, workerVars, writerVars, ctxVars,
                   keysChan, keysClosed, closerPc, resultsChan, resultsClosed,
                   calls, errlog, ttlSeen>>

\* os.Create succeeds: the channels are made, the workers, the closing task
\* and the enumerator are started, "[" is written, the writer loop is entered.
CreateOk ==
    /\ mainPc = "create"
    /\ mainPc' = "loop"
    /\ pc' = [w \in Workers |-> "recv"]
    /\ wg' = workers
    /\ closerPc' = "wait"
    /\ output' = Append(output, Tok("[", NoJSON))
    /\ enumPc' = "next"
    /\ UNCHANGED <<codecVars, configVars,
                   ctxVars, ret, pos, enumExit, enumKey, keysChan,
                   keysClosed, wkey, wtype, wentry, resultsChan, resultsClosed,
                   firstEntry, processed, taken, encodeErrs, calls, errlog, ttlSeen>>

\* ------------------------------------------------------------- ctx cancel
Cancel ==
    /\ ~cancelled
    /\ cancelled' = TRUE
    /\ cancelEarly' = (pos < Len(source))
    /\ UNCHANGED <<codecVars, configVars,
                   enumVars, workerVars, writerVars, mainVars,
                   keysChan, keysClosed, closerPc, resultsChan, resultsClosed,
                   calls, errlog, ttlSeen>>

\* ------------------------------------------------------------- channels
\* Mutant of CanSend: the channel is unbounded.
CanSendAlways(ch, capacity) == TRUE

\* make(chan T, capacity): a send completes without a receiver only while
\* the buffer holds fewer than capacity elements.
CanSend(ch, capacity) == Len(ch) < capacity

RedisErr == <<"redis: ", "i/o failure">>

\* ------------------------------------------------------------- enumerator
\* iter.Next returns true: key := iter.Val().
EnumNextKey ==
    /\ enumPc = "next"
    /\ pos < Len(source)
    /\ pos' = pos + 1
    /\ enumKey' = source[pos + 1]
    /\ enumPc' = "send"
    /\ UNCHANGED <<codecVars, configVars,
                   ctxVars, mainVars, workerVars, writerVars,
                   enumExit, keysChan, keysClosed, closerPc, resultsChan,
                   resultsClosed, calls, errlog, ttlSeen>>

\* Mutant of EnumExhausted: the enumerator returns without close(keysChan).
EnumExhaustedNoClose ==
    /\ enumPc = "next"
    /\ pos = Len(source)
    /\ enumPc' = "done"
    /\ enumExit' = "exhausted"
    /\ UNCHANGED <<codecVars, configVars,
                   ctxVars, mainVars, workerVars, writerVars,
                   pos, enumKey, keysChan, keysClosed, closerPc, resultsChan,
                   resultsClosed, calls, errlog, ttlSeen>>

\* iter.Next returns false with the cursor exhausted: iter.Err() is nil and
\* the deferred close(keysChan) runs.
EnumExhausted ==
    /\ enumPc = "next"
    /\ pos = Len(source)
    /\ enumPc' = "done"
    /\ enumExit' = "exhausted"
    /\ keysClosed' = keysClosed + 1
    /\ UNCHANGED <<codecVars, configVars,
                   ctxVars, mainVars, workerVars, writerVars,
                   pos, enumKey, keysChan, closerPc, resultsChan,
                   resultsClosed, calls, errlog, ttlSeen>>

\* iter.Next returns false because a page fetch failed: iter.Err() is logged
\* and the deferred close(keysChan) runs.
EnumScanError ==
    /\ enumPc = "next"
    /\ enumPc' = "done"
    /\ enumExit' = "error"
    /\ keysClosed' = keysClosed + 1
    /\ UNCHANGED <<codecVars, configVars,
                   ctxVars, mainVars, workerVars, writerVars,
                   pos, enumKey, keysChan, closerPc, resultsChan,
                   resultsClosed, calls, errlog, ttlSeen>>

\* select case keysChan <- key, into the buffer.
EnumSend ==
    /\ enumPc = "send"
    /\ CanSend(keysChan, batchSize)
    /\ keysChan' = Append(keysChan, enumKey)
    /\ enumKey' = NoKey
    /\ enumPc' = "next"
    /\ UNCHANGED <<codecVars, configVars,
                   ctxVars, mainVars, workerVars, writerVars,
                   pos, enumExit, keysClosed, closerPc, resultsChan,
                   resultsClosed, calls, errlog, ttlSeen>>

\* select case keysChan <- key on an unbuffered channel: the key goes
\* straight to a worker waiting in its range loop.
EnumHandoff(w) ==
    /\ enumPc = "send"
    /\ batchSize = 0
    /\ pc[w] = "recv"
    /\ wkey' = [wkey EXCEPT ![w] = enumKey]
    /\ pc' = [pc EXCEPT ![w] = "select"]
    /\ enumKey' = NoKey
    /\ enumPc' = "next"
    /\ UNCHANGED <<codecVars, configVars,
                   ctxVars, mainVars, writerVars, wtype, wentry,
                   wg, pos, enumExit, keysChan, keysClosed, closerPc,
                   resultsChan, resultsClosed, calls, errlog, ttlSeen>>

\* Mutant of EnumCancelled: the return on cancellation skips close(keysChan).
EnumCancelledNoClose ==
    /\ enumPc = "send"
    /\ cancelled
    /\ enumKey' = NoKey
    /\ enumPc' = "done"
    /\ enumExit' = "cancelled"
    /\ UNCHANGED <<codecVars, configVars,
                   ctxVars, mainVars, workerVars, writerVars,
                   pos, keysChan, keysClosed, closerPc, resultsChan,
                   resultsClosed, calls, errlog, ttlSeen>>

\* select case <-ctx.Done(): return, and the deferred close(keysChan) runs.
EnumCancelled ==
    /\ enumPc = "send"
    /\ cancelled
    /\ enumKey' = NoKey
    /\ enumPc' = "done"
    /\ enumExit' = "cancelled"
    /\ keysClosed' = keysClosed + 1
    /\ UNCHANGED <<codecVars, configVars,
                   ctxVars, mainVars, workerVars, writerVars,
                   pos, keysChan, closerPc, resultsChan, resultsClosed,
                   calls, errlog, ttlSeen>>

\* ----------------------------------------------------------------- worker
\* The worker leaves its current key, with or without a logged error, and
\* goes back to the range loop.
NextKey(w) ==
    /\ pc' = [pc EXCEPT ![w] = "recv"]
    /\ wkey' = [wkey EXCEPT ![w] = NoKey]
    /\ wtype' = [wtype EXCEPT ![w] = ""]
    /\ wentry' = [wentry EXCEPT ![w] = NoEntry]
    /\ wg' = wg

\* Mutant of Continue: a key-scoped error ends the worker.
ContinueReturns(w) ==
    /\ pc' = [pc EXCEPT ![w] = "done"]
    /\ wkey' = [wkey EXCEPT ![w] = NoKey]
    /\ wtype' = [wtype EXCEPT ![w] = ""]
    /\ wentry' = [wentry EXCEPT ![w] = NoEntry]
    /\ wg' = wg - 1

\* The error branch of the worker: the error is logged by the caller of
\* this definition, and continue takes the worker back to the range loop.
Continue(w) ==
    /\ pc' = [pc EXCEPT ![w] = "recv"]
    /\ wkey' = [wkey EXCEPT ![w] = NoKey]
    /\ wtype' = [wtype EXCEPT ![w] = ""]
    /\ wentry' = [wentry EXCEPT ![w] = NoEntry]
    /\ wg' = wg

\* The worker returns: the deferred wg.Done() runs.
Return(w) ==
    /\ pc' = [pc EXCEPT ![w] = "done"]
    /\ wkey' = [wkey EXCEPT ![w] = NoKey]
    /\ wtype' = [wtype EXCEPT ![w] = ""]
    /\ wentry' = [wentry EXCEPT ![w] = NoEntry]
    /\ wg' = wg - 1

\* for key := range keysChan, a key is buffered.
WorkerRecv(w) ==
    /\ pc[w] = "recv"
    /\ keysChan # <<>>
    /\ wkey' = [wkey EXCEPT ![w] = Head(keysChan)]
    /\ keysChan' = Tail(keysChan)
    /\ pc' = [pc EXCEPT ![w] = "select"]
    /\ UNCHANGED <<codecVars, configVars,
                   ctxVars, mainVars, enumVars, writerVars,
                   wtype, wentry, wg, keysClosed, closerPc, resultsChan,
                   resultsClosed, calls, errlog, ttlSeen>>

\* for key := range keysChan, the channel is closed and drained.
WorkerExit(w) ==
    /\ pc[w] = "recv"
    /\ keysChan = <<>>
    /\ keysClosed > 0
    /\ Return(w)
    /\ UNCHANGED <<codecVars, configVars,
                   ctxVars, mainVars, enumVars, writerVars,
                   keysChan, keysClosed, closerPc, resultsChan,
                   resultsClosed, calls, errlog, ttlSeen>>

\* Mutant of WorkerSelect: the worker does not look at ctx.Done().
WorkerSelectNoCheck(w) ==
    /\ pc[w] = "select"
    /\ pc' = [pc EXCEPT ![w] = "type"]
    /\ UNCHANGED <<wkey, wtype, wentry, wg>>
    /\ UNCHANGED <<codecVars, configVars,
                   ctxVars, mainVars, enumVars, writerVars,
                   keysChan, keysClosed, closerPc, resultsChan, resultsClosed,
                   calls, errlog, ttlSeen>>

\* select on ctx.Done(): return when cancelled, else (default) go on to
\* processKey.
WorkerSelect(w) ==
    /\ pc[w] = "select"
    /\ IF cancelled
         THEN Return(w)
         ELSE /\ pc' = [pc EXCEPT ![w] = "type"]
              /\ UNCHANGED <<wkey, wtype, wentry, wg>>
    /\ UNCHANGED <<codecVars, configVars,
                   ctxVars, mainVars, enumVars, writerVars,
                   keysChan, keysClosed, closerPc, resultsChan, resultsClosed,
                   calls, errlog, ttlSeen>>

\* processKey: the TYPE fetch and its error check.
WorkerType(w) ==
    /\ pc[w] = "type"
    /\ calls' = [calls EXCEPT ![wkey[w]] = Append(@, "TYPE")]
    /\ \/ /\ pc' = [pc EXCEPT ![w] = "value"]
          /\ wtype' = [wtype EXCEPT ![w] = StoreType(wkey[w])]
          /\ UNCHANGED <<wkey, wentry, wg, errlog>>
       \/ /\ errlog' = [errlog EXCEPT ![wkey[w]] =
                 Append(@, KeyErr("type", wkey[w], RedisErr))]
          /\ Continue(w)
    /\ UNCHANGED <<codecVars, configVars,
                   ctxVars, mainVars, enumVars, writerVars,
                   keysChan, keysClosed, closerPc, resultsChan, resultsClosed,
                   ttlSeen>>

\* Mutant of WorkerValue: the error of the value fetch is logged but
\* processKey goes on to the TTL fetch.
WorkerValueGoesOn(w) ==
    /\ pc[w] = "value"
    /\ IF ValueCommand(wtype[w]) = ""
         THEN /\ errlog' = [errlog EXCEPT ![wkey[w]] =
                     Append(@, KeyErr("value", wkey[w], UnsupportedErr(wtype[w])))]
              /\ Continue(w)
              /\ UNCHANGED calls
         ELSE /\ calls' = [calls EXCEPT ![wkey[w]] =
                     Append(@, ValueCommand(wtype[w]))]
              /\ pc' = [pc EXCEPT ![w] = "ttl"]
              /\ UNCHANGED <<wkey, wtype, wentry, wg>>
              /\ \/ UNCHANGED errlog
                 \/ errlog' = [errlog EXCEPT ![wkey[w]] =
                        Append(@, KeyErr("value", wkey[w], RedisErr))]
    /\ UNCHANGED <<codecVars, configVars,
                   ctxVars, mainVars, enumVars, writerVars,
                   keysChan, keysClosed, closerPc, resultsChan, resultsClosed,
                   ttlSeen>>

\* processKey: getValueByType and its error check.
WorkerValue(w) ==
    /\ pc[w] = "value"
    /\ IF ValueCommand(wtype[w]) = ""
         THEN /\ errlog' = [errlog EXCEPT ![wkey[w]] =
                     Append(@, KeyErr("value", wkey[w], UnsupportedErr(wtype[w])))]
              /\ Continue(w)
              /\ UNCHANGED calls
         ELSE /\ calls' = [calls EXCEPT ![wkey[w]] =
                     Append(@, ValueCommand(wtype[w]))]
              /\ \/ /\ pc' = [pc EXCEPT ![w] = "ttl"]
                    /\ UNCHANGED <<wkey, wtype, wentry, wg, errlog>>
                 \/ /\ errlog' = [errlog EXCEPT ![wkey[w]] =
                           Append(@, KeyErr("value", wkey[w], RedisErr))]
                    /\ Continue(w)
    /\ UNCHANGED <<codecVars, configVars,
                   ctxVars, mainVars, enumVars, writerVars,
                   keysChan, keysClosed, closerPc, resultsChan, resultsClosed,
                   ttlSeen>>

\* processKey: the TTL fetch, its error check and the entry.
WorkerTTL(w) ==
    /\ pc[w] = "ttl"
    /\ calls' = [calls EXCEPT ![wkey[w]] = Append(@, "TTL")]
    /\ \/ \E ttl \in StoreTTLs(wkey[w]) :
             /\ pc' = [pc EXCEPT ![w] = "send"]
             /\ ttlSeen' = [ttlSeen EXCEPT ![wkey[w]] = Append(@, ttl)]
             /\ wentry' = [wentry EXCEPT ![w] =
                    MakeEntry(wkey[w], wtype[w], ttl)]
             /\ UNCHANGED <<wkey, wtype, wg, errlog>>
       \/ /\ errlog' = [errlog EXCEPT ![wkey[w]] =
                 Append(@, KeyErr("TTL", wkey[w], RedisErr))]
          /\ Continue(w)
          /\ UNCHANGED ttlSeen
    /\ UNCHANGED <<codecVars, configVars,
                   ctxVars, mainVars, enumVars, writerVars,
                   keysChan, keysClosed, closerPc, resultsChan, resultsClosed>>

\* Mutant of WorkerSend: the entry is not enqueued.
WorkerSendLost(w) ==
    /\ pc[w] = "send"
    /\ CanSend(resultsChan, batchSize)
    /\ NextKey(w)
    /\ UNCHANGED <<codecVars, configVars,
                   ctxVars, mainVars, enumVars, writerVars,
                   keysChan, keysClosed, closerPc, resultsChan, resultsClosed,
                   calls, errlog, ttlSeen>>

\* resultsChan <- entry, into the buffer.
WorkerSend(w) ==
    /\ pc[w] = "send"
    /\ CanSend(resultsChan, batchSize)
    /\ resultsChan' = Append(resultsChan, wentry[w])
    /\ NextKey(w)
    /\ UNCHANGED <<codecVars, configVars,
                   ctxVars, mainVars, enumVars, writerVars,
                   keysChan, keysClosed, closerPc, resultsClosed, calls,
                   errlog, ttlSeen>>

\* ---------------------------------------------------------- closing task
\* Mutant of CloseResults: close(resultsChan) without wg.Wait().
CloseResultsEarly ==
    /\ closerPc = "wait"
    /\ closerPc' = "done"
    /\ resultsClosed' = resultsClosed + 1
    /\ UNCHANGED <<codecVars, configVars,
                   ctxVars, mainVars, enumVars, workerVars,
                   writerVars, keysChan, keysClosed, resultsChan, calls,
                   errlog, ttlSeen>>

\* wg.Wait() returns; close(resultsChan).
CloseResults ==
    /\ closerPc = "wait"
    /\ wg = 0
    /\ closerPc' = "done"
    /\ resultsClosed' = resultsClosed + 1
    /\ UNCHANGED <<codecVars, configVars,
                   ctxVars, mainVars, enumVars, workerVars,
                   writerVars, keysChan, keysClosed, resultsChan, calls,
                   errlog, ttlSeen>>

\* ------------------------------------------------------------ writer loop
\* The select of the loop has a third case, <-ticker.C, which reads
\* processed and logs the progress; it changes nothing and has no action.
EncodeResults == {"ok", "failed", "failed-partial"}

\* Mutant of WriteEntry: processed++ comes before the error check of Encode.
WriteEntryCountsAll(entry, res) ==
    /\ output' = output
                 \o (IF firstEntry THEN <<>> ELSE <<Tok(",", NoJSON)>>)
                 \o (CASE res = "ok" -> <<Tok("elem", EncodeJSON(entry))>>
                       [] res = "failed-partial" -> <<Tok("partial", EncodeJSON(entry))>>
                       [] OTHER -> <<>>)
    /\ firstEntry' = FALSE
    /\ processed' = processed + 1
    /\ encodeErrs' = IF res = "ok" THEN encodeErrs
                     ELSE encodeErrs \cup {entry.key}
    /\ taken' = taken + 1

\* The body of case entry, ok := <-resultsChan for a received entry: the
\* separator, encoder.Encode (which may fail before or while writing) and
\* processed++.
WriteEntry(entry, res) ==
    /\ output' = output
                 \o (IF firstEntry THEN <<>> ELSE <<Tok(",", NoJSON)>>)
                 \o (CASE res = "ok" -> <<Tok("elem", EncodeJSON(entry))>>
                       [] res = "failed-partial" -> <<Tok("partial", EncodeJSON(entry))>>
                       [] OTHER -> <<>>)
    /\ firstEntry' = FALSE
    /\ processed' = IF res = "ok" THEN processed + 1 ELSE processed
    /\ encodeErrs' = IF res = "ok" THEN encodeErrs
                     ELSE encodeErrs \cup {entry.key}
    /\ taken' = taken + 1

\* case entry, ok := <-resultsChan with ok: an entry is buffered.
WriterRecv ==
    /\ mainPc = "loop"
    /\ resultsChan # <<>>
    /\ \E res \in EncodeResults : WriteEntry(Head(resultsChan), res)
    /\ resultsChan' = Tail(resultsChan)
    /\ UNCHANGED <<codecVars, configVars,
                   ctxVars, mainVars, enumVars, workerVars,
                   keysChan, keysClosed, closerPc, resultsClosed, calls,
                   errlog, ttlSeen>>

\* resultsChan <- entry on an unbuffered channel: the entry goes straight
\* to the writer loop, which handles it.
WorkerHandoff(w) ==
    /\ pc[w] = "send"
    /\ batchSize = 0
    /\ mainPc = "loop"
    /\ \E res \in EncodeResults : WriteEntry(wentry[w], res)
    /\ NextKey(w)
    /\ UNCHANGED <<codecVars, configVars,
                   ctxVars, mainVars, enumVars, keysChan,
                   keysClosed, closerPc, resultsChan, resultsClosed, calls,
                   errlog, ttlSeen>>

\* case entry, ok := <-resultsChan with !ok: "]" is written, return nil.
WriterClosed ==
    /\ mainPc = "loop"
    /\ resultsChan = <<>>
    /\ resultsClosed > 0
    /\ output' = Append(output, Tok("]", NoJSON))
    /\ mainPc' = "done"
    /\ ret' = "nil"
    /\ UNCHANGED <<codecVars, configVars,
                   ctxVars, enumVars, workerVars, firstEntry,
                   processed, taken, encodeErrs, keysChan, keysClosed,
                   closerPc, resultsChan, resultsClosed, calls, errlog, ttlSeen>>

\* case <-ctx.Done(): return ctx.Err().
WriterCancelled ==
    /\ mainPc = "loop"
    /\ cancelled
    /\ mainPc' = "done"
    /\ ret' = "ctxErr"
    /\ UNCHANGED <<codecVars, configVars,
                   ctxVars, enumVars, workerVars, writerVars,
                   keysChan, keysClosed, closerPc, resultsChan,
                   resultsClosed, calls, errlog, ttlSeen>>

\* ------------------------------------------------------- specifications
\* Every step but the cancellation, which the caller decides.
Step ==
    \/ CreateFails
    \/ CreateOk
    \/ EnumNextKey
    \/ EnumExhausted
    \/ EnumScanError
    \/ EnumSend
    \/ EnumCancelled
    \/ \E w \in Workers : EnumHandoff(w)
    \/ \E w \in Workers : WorkerRecv(w)
    \/ \E w \in Workers : WorkerExit(w)
    \/ \E w \in Workers : WorkerSelect(w)
    \/ \E w \in Workers : WorkerType(w)
    \/ \E w \in Workers : WorkerValue(w)
    \/ \E w \in Workers : WorkerTTL(w)
    \/ \E w \in Workers : WorkerSend(w)
    \/ \E w \in Workers : WorkerHandoff(w)
    \/ CloseResults
    \/ WriterRecv
    \/ WriterClosed
    \/ WriterCancelled

Next == Step \/ Cancel

Spec == Init /\ [][Next]_vars

\* The same steps under fair scheduling: a task that can take a step is
\* eventually run; the caller need not cancel.
FairSpec == Spec /\ WF_vars(Step)

\* ------------------------------------------------------------ vocabulary
\* The keys of the elements in the output.
OutKeys == {output[i].entry.key : i \in {j \in DOMAIN output : output[j].tok = "elem"}}

\* The number of elements of the output that carry key k.
ElemCount(k) ==
    Cardinality({i \in DOMAIN output : output[i].tok = "elem" /\ output[i].entry.key = k})

\* The keys the iterator has yielded.
Enumerated == {source[i] : i \in 1..pos}

\* processKey returned an entry for k: its three fetches were issued and no
\* error was logged for it.
Resolved(k) == Len(calls[k]) = 3 /\ errlog[k] = <<>>

\* The types the export supports.
SupportedTypes == {"string", "list", "set", "zset", "hash", "stream"}

\* The store's type of k is none of the supported ones.
Unsupported(k) == StoreType(k) \notin SupportedTypes

\* The run reached Completed: success, no cancellation, the key source
\* exhausted without error, no failure of the writer.
Completed ==
    /\ ret = "nil"
    /\ ~cancelled
    /\ enumExit = "exhausted"
    /\ encodeErrs = {}

\* The configurations the pipeline is meant for: at least one worker and
\* buffered queues.
NormalConfig == workers >= 1 /\ batchSize >= 1

\* The tokens form "[", elements separated by ",", "]".
ValidArray(out) ==
    /\ Len(out) >= 2
    /\ Len(out) = 2 \/ Len(out) % 2 = 1
    /\ out[1].tok = "["
    /\ out[Len(out)].tok = "]"
    /\ \A i \in 2..(Len(out) - 1) :
         out[i].tok = IF i % 2 = 0 THEN "elem" ELSE ","

\* Every task started by Export has terminated.
TasksTerminated ==
    /\ enumPc = "done"
    /\ closerPc = "done"
    /\ \A w \in Workers : pc[w] = "done"

\* Resolved records not yet taken by the writer.
UnwrittenRecords ==
    Len(resultsChan) + Cardinality({w \in Workers : pc[w] = "send"})

\* Enumerated keys not yet resolved or dropped.
UnresolvedKeys ==
    Len(keysChan) + (IF enumPc = "send" THEN 1 ELSE 0)
    + Cardinality({w \in Workers : pc[w] \in {"select", "type", "value", "ttl"}})

\* ----------------------------------------------------------------- claims
\* C1: in a run that ends Completed, the output holds exactly one element
\* for every enumerated key whose resolution succeeded and no element for
\* any other key: no resolved key is lost, none is duplicated.
C1_ExactlyOnePerResolvedKey ==
    Completed =>
        \A k \in AllKeys :
            ElemCount(k) = IF k \in Enumerated /\ Resolved(k) THEN 1 ELSE 0

C1_Witness ==
    /\ Completed
    /\ workers >= 1
    /\ Len(source) = MaxKeys
    /\ \A i \in DOMAIN source : Resolved(source[i]) /\ ElemCount(source[i]) = 1

\* C2: when Export returns the cancellation cause, what has been written is
\* a valid JSON array with balanced brackets.
C2_CancelledOutputIsValidArray ==
    (NormalConfig /\ ret = "ctxErr") => ValidArray(output)

\* C3: after the cancellation signal fires mid-run, the enumerator, every
\* worker and the task closing the result queue all eventually terminate.
C3_CancelledTasksTerminate ==
    (NormalConfig /\ cancelled /\ mainPc = "loop") ~> TasksTerminated

\* C4: if the key enumeration fails, Export does not report success.
C4_ScanErrorIsReturned ==
    (NormalConfig /\ enumExit = "error") => ret # "nil"

\* C5: Export returns success only if the key source is exhausted, all
\* workers have exited and the result queue is drained, and never when the
\* cancellation fired before the key source was exhausted (runs whose
\* enumeration failed are the matter of C4 and are left out here).
C5_SuccessOnlyIfCompleted ==
    (NormalConfig /\ ret = "nil" /\ enumExit # "error") =>
        /\ enumExit = "exhausted"
        /\ \A w \in Workers : pc[w] = "done"
        /\ resultsChan = <<>>
        /\ ~cancelEarly

\* C6: a failure of the writer aborts the run: as soon as an element has
\* failed to be written, Export has returned, and with an error.
C6_WriterFailureIsFatal ==
    (NormalConfig /\ encodeErrs # {}) => (mainPc = "done" /\ ret \notin {"none", "nil"})

\* C7: a key-scoped resolution error never aborts the run: the worker that
\* logs it goes back to its range loop and Export's state is untouched, the
\* failing key is not in the output, every enumerated key without an error
\* is exported by a completed run, and a run that is neither cancelled nor
\* refused its output file returns success.
C7_KeyErrorState ==
    /\ \A k \in AllKeys : errlog[k] # <<>> => k \notin OutKeys
    /\ (Completed /\ workers >= 1) =>
           \A k \in Enumerated : errlog[k] = <<>> => k \in OutKeys
    /\ (mainPc = "done" /\ ~cancelled /\ ret # "ErrCreate") => ret = "nil"

C7_KeyErrorStep ==
    \A w \in Workers :
        (wkey[w] # NoKey /\ errlog'[wkey[w]] # errlog[wkey[w]]) =>
            /\ pc'[w] = "recv"
            /\ mainPc' = mainPc
            /\ ret' = ret
            /\ output' = output

C7_KeyErrorsAreSkipped == []C7_KeyErrorState /\ [][C7_KeyErrorStep]_vars

C7_Witness ==
    /\ Completed
    /\ \E k \in Enumerated : errlog[k] # <<>> /\ ~Unsupported(k)
    /\ \E k \in Enumerated : k \in OutKeys

\* C8 as stated: with a sink that never drains, at most batchSize resolved
\* records and at most batchSize unresolved keys exist.
C8_AtMostCapacity ==
    (NormalConfig /\ taken = 0) =>
        /\ UnwrittenRecords <= batchSize
        /\ UnresolvedKeys <= batchSize

\* C8 amended: with a sink that never drains, at most batchSize + workers
\* resolved records exist (each worker may hold one while the queue is
\* full) and at most batchSize + workers + 1 unresolved keys exist (each
\* worker and the enumerator may hold one).
C8_AtMostCapacityPlusHolders ==
    taken = 0 =>
        /\ UnwrittenRecords <= batchSize + workers
        /\ UnresolvedKeys <= batchSize + workers + 1

C8_Witness ==
    /\ taken = 0
    /\ batchSize >= 1
    /\ workers >= 1
    /\ UnwrittenRecords = batchSize + workers

\* C9: if the output file cannot be created, Export returns that error and
\* nothing else has happened: no task was started, no command was issued to
\* the store, nothing was written.
C9_CreateErrorStartsNothing ==
    ret = "ErrCreate" =>
        /\ enumPc = "idle"
        /\ closerPc = "idle"
        /\ \A w \in Workers : pc[w] = "idle"
        /\ pos = 0
        /\ output = <<>>
        /\ taken = 0
        /\ \A k \in AllKeys : calls[k] = <<>>

C9_Witness ==
    /\ ret = "ErrCreate"
    /\ workers >= 1
    /\ source # <<>>

\* C10: a key of unsupported type is never in the output, only its type is
\* ever fetched (no value fetch, no TTL fetch), at most one error is logged
\* for it, exactly one once a worker is through with it, and the error of
\* the value step is the unsupported-type error carrying the type.
C10_UnsupportedTypeIsSkipped ==
    \A k \in AllKeys :
        Unsupported(k) =>
            /\ k \notin OutKeys
            /\ calls[k] \in {<<>>, <<"TYPE">>}
            /\ Len(errlog[k]) <= 1
            /\ (calls[k] = <<"TYPE">> /\ \A w \in Workers : wkey[w] # k) =>
                   Len(errlog[k]) = 1
            /\ \A i \in DOMAIN errlog[k] :
                   \/ errlog[k][i].op = "type"
                   \/ /\ errlog[k][i].op = "value"
                      /\ errlog[k][i].cause = UnsupportedErr(StoreType(k))

C10_Witness ==
    /\ ret = "nil"
    /\ \E k \in Enumerated :
         /\ Unsupported(k)
         /\ errlog[k] = <<KeyErr("value", k, UnsupportedErr(StoreType(k)))>>
         /\ calls[k] = <<"TYPE">>

\* The entries that workers hold or that wait in the result queue.
EntriesInFlight ==
    {wentry[w] : w \in {v \in Workers : pc[v] = "send"}}
    \cup {resultsChan[i] : i \in DOMAIN resultsChan}

\* The elements of the output, as JSON objects.
OutElems == {output[i].entry : i \in {j \in DOMAIN output : output[j].tok = "elem"}}

\* C11: the ttl of a resolved record is the whole seconds of the duration
\* its TTL fetch answered when that duration is positive and zero otherwise;
\* an element has a ttl field exactly when that number is not zero, so a
\* key without expiry and a key with a non-positive TTL both have no ttl
\* field, and a ttl that is written is positive.
C11_TTLOnlyWhenPositive ==
    /\ \A e \in EntriesInFlight :
         /\ Len(ttlSeen[e.key]) = 1
         /\ e.ttl = IF ttlSeen[e.key][1] > 0
                      THEN ttlSeen[e.key][1] \div Second ELSE 0
    /\ \A j \in OutElems :
         /\ Len(ttlSeen[j.key]) = 1
         /\ ttlSeen[j.key][1] <= 0 => "ttl" \notin DOMAIN j
         /\ ttlSeen[j.key][1] >= Second =>
                "ttl" \in DOMAIN j /\ j.ttl = ttlSeen[j.key][1] \div Second
         /\ "ttl" \in DOMAIN j => j.ttl > 0

C11_Witness ==
    /\ ret = "nil"
    /\ \E j \in OutElems : "ttl" \in DOMAIN j /\ j.ttl = 3600
    /\ \E j \in OutElems : "ttl" \notin DOMAIN j /\ ttlSeen[j.key][1] < 0

\* The end of a completed run: the key source exhausted, both queues
\* closed and empty, every worker gone, "]" written last, success returned.
Finished ==
    /\ ret = "nil"
    /\ enumExit = "exhausted"
    /\ pos = Len(source)
    /\ keysClosed = 1
    /\ keysChan = <<>>
    /\ \A w \in Workers : pc[w] = "done"
    /\ resultsClosed = 1
    /\ resultsChan = <<>>
    /\ output[Len(output)].tok = "]"

\* A fatal error has struck: the file could not be created, the
\* enumeration failed or an element could not be written.
FatalError == ret = "ErrCreate" \/ enumExit = "error" \/ encodeErrs # {}

\* C12: under fair scheduling and with at least one worker, a run that is
\* never cancelled and meets no fatal error eventually reaches the end of a
\* completed run.
C12_EventuallyCompleted ==
    (workers >= 1) => <>(cancelled \/ FatalError \/ Finished)

C12_Witness ==
    /\ Finished
    /\ ~cancelled
    /\ ~FatalError
    /\ workers >= 1
    /\ Len(source) = MaxKeys
    /\ processed >= 1

\* ------------------------------------------------- the JSON round trip
\* The TTL values of the entries that are marshalled.
CodecTTLs == {-1, 0, 1, 3600}

\* The entries that are marshalled: every key with every supported type.
CodecEntries ==
    {[key |-> k, type |-> t, value |-> FetchedValue(k, t), ttl |-> n] :
        k \in AllKeys, t \in SupportedTypes, n \in CodecTTLs}

CodecInit ==
    /\ workers = 0
    /\ batchSize = 0
    /\ source = <<>>
    /\ Idle
    /\ codecPc = "encode"
    /\ rec \in CodecEntries
    /\ json = NoJSON
    /\ back = NoEntry

pipelineVars ==
    <<configVars, ctxVars, mainVars, enumVars, workerVars, writerVars,
      keysChan, keysClosed, closerPc, resultsChan, resultsClosed, calls,
      errlog, ttlSeen>>

\* data, err := json.Marshal(entry)
CodecEncode ==
    /\ codecPc = "encode"
    /\ json' = EncodeJSON(rec)
    /\ codecPc' = "decode"
    /\ UNCHANGED <<pipelineVars, rec, back>>

\* err = json.Unmarshal(data, &decoded)
CodecDecode ==
    /\ codecPc = "decode"
    /\ back' = DecodeJSON(json)
    /\ codecPc' = "done"
    /\ UNCHANGED <<pipelineVars, rec, json>>

CodecNext == CodecEncode \/ CodecDecode

CodecSpec == CodecInit /\ [][CodecNext]_vars

C14_ResultsClosedAfterWorkers ==
    /\ resultsClosed <= 1
    /\ resultsClosed = 1 => (wg = 0 /\ \A w \in Workers : pc[w] = "done")
    /\ resultsClosed = 1 <=> closerPc = "done"
    /\ ret = "nil" => resultsClosed = 1

C14_Witness ==
    /\ resultsClosed = 1
    /\ workers = MaxWorkers
    /\ \A w \in Workers : pc[w] = "done"
    /\ processed >= 1

\* The number of elements in the output.
OutElemCount == Cardinality({i \in DOMAIN output : output[i].tok = "elem"})

\* C16: the processed counter equals the number of elements written
\* successfully, in every state and so when the total is reported; an
\* element that failed to be written does not count.
C16_ProcessedCountsElements ==
    /\ processed = OutElemCount
    /\ processed + Cardinality(encodeErrs) = taken

C16_Witness ==
    /\ ret = "nil"
    /\ processed = 1
    /\ taken = 2
    /\ OutElemCount = 1

\* C15: once the cancellation has fired no worker starts to resolve a
\* key: the worker that looks at a dequeued key then returns, and the key is
\* dropped without any fetch, log or result, whether or not the key queue
\* is closed; only a key whose resolution had started gets a fetch.
C15_CancelledStep ==
    /\ \A w \in Workers :
         (cancelled /\ pc[w] = "select" /\ pc'[w] # "select") =>
             /\ pc'[w] = "done"
             /\ wg' = wg - 1
             /\ calls' = calls
             /\ errlog' = errlog
             /\ resultsChan' = resultsChan
             /\ output' = output
    /\ cancelled =>
         \A k \in AllKeys :
             (calls[k] = <<>> /\ calls'[k] # <<>>) =>
                 \E w \in Workers : pc[w] = "type" /\ wkey[w] = k

C15_NoKeyStartedAfterCancel == [][C15_CancelledStep]_vars

C15_Witness ==
    /\ cancelled
    /\ keysClosed = 0
    /\ \E w \in Workers : pc[w] = "done"
    /\ \E k \in Enumerated :
         /\ calls[k] = <<>>
         /\ k # enumKey
         /\ \A i \in DOMAIN keysChan : keysChan[i] # k
         /\ \A w \in Workers : wkey[w] # k

\* The commands processKey issues for k when nothing fails.
FetchOrder(k) ==
    IF StoreType(k) \in SupportedTypes
      THEN <<"TYPE", ValueCommand(StoreType(k)), "TTL">>
      ELSE <<"TYPE">>

\* C18: the fetches for a key are issued in the order type, value, TTL; an
\* error stops the resolution of that key at the step that failed: it is
\* the only error of the key, it names the key, its step and the cause, no
\* later fetch has been issued, and no record of the key exists.
C18_OrderedFetchesStopAtError ==
    \A k \in AllKeys :
        /\ Len(calls[k]) <= Len(FetchOrder(k))
        /\ calls[k] = SubSeq(FetchOrder(k), 1, Len(calls[k]))
        /\ Len(errlog[k]) <= 1
        /\ errlog[k] # <<>> =>
             /\ errlog[k][1].key = k
             /\ errlog[k][1].cause \in {RedisErr, UnsupportedErr(StoreType(k))}
             /\ errlog[k][1].op = "type" => calls[k] = <<"TYPE">>
             /\ errlog[k][1].op = "value" => Len(calls[k]) <= 2
             /\ errlog[k][1].op = "TTL" => Len(calls[k]) = 3
             /\ errlog[k][1].op \in {"type", "value", "TTL"}
             /\ ttlSeen[k] = <<>>
             /\ \A e \in EntriesInFlight : e.key # k
             /\ \A j \in DOMAIN output : output[j].entry.key # k
             /\ \A w \in Workers : wkey[w] # k

C18_Witness ==
    /\ ret = "nil"
    /\ \E k \in Enumerated : errlog[k] # <<>> /\ errlog[k][1].op = "value"
                             /\ Len(calls[k]) = 2
    /\ \E k \in Enumerated : Len(calls[k]) = 3 /\ k \in OutKeys

\* The structure of what has been written: "[" first and only first, ","
\* only between two elements, "]" only once and last.
WellFormed(out) ==
    \A i \in DOMAIN out :
        /\ (out[i].tok = "[") = (i = 1)
        /\ out[i].tok = "," =>
             /\ i > 1 /\ out[i - 1].tok = "elem"
             /\ i < Len(out) /\ out[i + 1].tok = "elem"
        /\ out[i].tok = "]" => i = Len(out)

\* No element has been cut off in the middle of its write.
NoPartialElement == \A i \in DOMAIN output : output[i].tok # "partial"

\* C17: what has been written is well formed in every state, also after
\* an element failed to encode, and is a valid JSON array when Export has
\* returned success.
C17_OutputWellFormed ==
    (NormalConfig /\ NoPartialElement) =>
        /\ WellFormed(output)
        /\ ret = "nil" => ValidArray(output)

\* C19: each queue is closed at most once; the key queue is closed by the
\* enumerator, at its exit and on every exit path; no send completes on a
\* closed queue.
C19_ClosedState ==
    /\ keysClosed <= 1
    /\ resultsClosed <= 1
    /\ (enumPc = "done") = (keysClosed = 1)
    /\ enumPc = "done" => enumExit \in {"exhausted", "error", "cancelled"}
    /\ resultsClosed = 1 => \A w \in Workers : pc[w] # "send"

C19_ClosedStep ==
    /\ keysClosed' # keysClosed => (enumPc # "done" /\ enumPc' = "done")
    /\ (enumPc = "send" /\ enumPc' = "next") => keysClosed = 0
    /\ \A w \in Workers :
         (pc[w] = "send" /\ pc'[w] # "send") => resultsClosed = 0
    /\ Len(keysChan') > Len(keysChan) => keysClosed = 0
    /\ Len(resultsChan') > Len(resultsChan) => resultsClosed = 0

C19_NoSendOnClosedNoDoubleClose == []C19_ClosedState /\ [][C19_ClosedStep]_vars

C19_Witness ==
    /\ enumExit = "cancelled"
    /\ keysClosed = 1
    /\ resultsClosed = 1
    /\ taken >= 1

\* C20: in a run without cancellation (and without writer failure), when
\* Export returns success every key the key source produced is in the
\* output or has a logged error, and none is left in the key queue or in
\* the hands of the enumerator, for every worker count and capacity.
C20_SuccessLeavesNoKey ==
    (ret = "nil" /\ ~cancelled /\ encodeErrs = {}) =>
        /\ \A k \in Enumerated : k \in OutKeys \/ errlog[k] # <<>>
        /\ keysChan = <<>>
        /\ enumPc # "send"

====
